---------------------------- MODULE Spec2Model ----------------------------
(***************************************************************************)
(* Model of the search webhook of src/webhook.py: the scorer               *)
(* calculate_tfidf_score, the video lookup search_videos, the retry        *)
(* wrapper firestore_retry_decorator around search_content_with_retry and  *)
(* the request handler webhook with its two response builders.             *)
(*                                                                         *)
(* Strings are sequences of one-character strings.  Scores are IEEE 754    *)
(* doubles [e, m], a 53-bit mantissa m of weight 2^e, computed with the    *)
(* roundings of Python's float arithmetic.  What the code leaves to the    *)
(* process, the iteration order of a set of str and the algorithm of       *)
(* sum(), is a choice of the initial state.                                *)
(***************************************************************************)
EXTENDS Integers, Sequences, FiniteSets, TLC

\* ------------------------------------------------------------------ bounds
\* longest query / text enumerated exhaustively by the scorer specification
MaxQLen == 2
MaxTLen == 3
\* most records per collection in the request scenarios
MaxDocs == 1

\* --------------------------------------------------------------- characters
\* A character is a one-character string; the characters are the code
\* points 1 to 255, those a string of this module can hold.  str.lower(),
\* str.strip() and the pattern \w are modelled as Python 3 defines them on
\* these code points.
UpperChars == <<"A","B","C","D","E","F","G","H","I","J","K","L","M",
                "N","O","P","Q","R","S","T","U","V","W","X","Y","Z",
                "À","Á","Â","Ã","Ä","Å","Æ","Ç","È","É","Ê","Ë","Ì","Í","Î",
                "Ï","Ð","Ñ","Ò","Ó","Ô","Õ","Ö","Ø","Ù","Ú","Û","Ü","Ý","Þ">>
LowerChars == <<"a","b","c","d","e","f","g","h","i","j","k","l","m",
                "n","o","p","q","r","s","t","u","v","w","x","y","z",
                "à","á","â","ã","ä","å","æ","ç","è","é","ê","ë","ì","í","î",
                "ï","ð","ñ","ò","ó","ô","õ","ö","ø","ù","ú","û","ü","ý","þ">>
DigitChars == <<"0","1","2","3","4","5","6","7","8","9">>

\* the alphanumeric characters that are neither an ASCII digit nor one of a
\* pair of cases
OtherWordChars == {"ª", "²", "³", "µ", "¹", "º", "¼", "½", "¾", "ß", "ÿ"}

Range(f) == {f[i] : i \in DOMAIN f}

\* the characters the pattern \w matches: str.isalnum() or the underscore
WordChars == Range(UpperChars) \cup Range(LowerChars)
                 \cup Range(DigitChars) \cup OtherWordChars \cup {"_"}
IsWordChar(c) == c \in WordChars

\* the characters str.strip() removes, those of str.isspace(): blank, \t, \n,
\* \x0b, \f, \r, \x1c to \x1f, \x85 and \xa0
SpaceChars == {" ", "\t", "\n", "\r", "\f", "", "", "", "",
               "", "", " "}
IsSpace(c) == c \in SpaceChars

LowerOf == [c \in Range(UpperChars) |->
              LowerChars[CHOOSE i \in DOMAIN UpperChars : UpperChars[i] = c]]

lower_char(c) == IF c \in DOMAIN LowerOf THEN LowerOf[c] ELSE c

\* str.lower()
lower(s) == [i \in 1..Len(s) |-> lower_char(s[i])]

\* variant: no trimming
strip_nothing(s) == s

\* str.strip()
strip(s) ==
    LET keep == {i \in 1..Len(s) : ~IsSpace(s[i])}
    IN  IF keep = {} THEN <<>>
        ELSE LET lo == CHOOSE i \in keep : \A j \in keep : i <= j
                 hi == CHOOSE i \in keep : \A j \in keep : i >= j
             IN  SubSeq(s, lo, hi)

\* the Python operator  a in b  on strings
contains(b, a) ==
    \E i \in 0..(Len(b) - Len(a)) : SubSeq(b, i + 1, i + Len(a)) = a

IsWordStart(s, i) ==
    IsWordChar(s[i]) /\ (i = 1 \/ ~IsWordChar(s[i - 1]))

\* the maximal run of word characters that starts at position i
WordAt(s, i) ==
    LET e == CHOOSE j \in i..Len(s) :
                 /\ \A k \in i..j : IsWordChar(s[k])
                 /\ (j = Len(s) \/ ~IsWordChar(s[j + 1]))
    IN  SubSeq(s, i, e)

RECURSIVE findall_in(_, _, _)
\* the runs that start at a position in lo..hi, left to right
findall_in(s, lo, hi) ==
    IF lo > hi THEN <<>>
    ELSE IF lo = hi
         THEN IF IsWordStart(s, lo) THEN <<WordAt(s, lo)>> ELSE <<>>
         ELSE LET mid == (lo + hi) \div 2
              IN  findall_in(s, lo, mid) \o findall_in(s, mid + 1, hi)

\* re.findall(r'\w+', s): the maximal runs of word characters, in order
findall(s) == findall_in(s, 1, Len(s))

\* ------------------------------------------------------------------ scores
\* A score is a Python float: an IEEE-754 double, here never negative and
\* never beyond the normal range.  The double m * 2^(e - 52) is kept as its
\* exponent e and the 53 bits of m, the leading bit first; 0.0 has no bits.
\* Every operation rounds to nearest, ties to even, as the machine does.
MantBits == 53
F_ZERO == [e |-> 0, m |-> <<>>]

Zeros(n) == [i \in 1..n |-> 0]

\* a bit string without its leading zeros
StripZeros(b) ==
    IF \A i \in 1..Len(b) : b[i] = 0 THEN <<>>
    ELSE LET k == CHOOSE i \in 1..Len(b) :
                      b[i] = 1 /\ \A j \in 1..(i - 1) : b[j] = 0
         IN  SubSeq(b, k, Len(b))

\* b + 1 on bit strings of equal length; all ones wrap to all zeros
BitsSucc(b) ==
    IF \A i \in 1..Len(b) : b[i] = 1 THEN Zeros(Len(b))
    ELSE LET k == CHOOSE i \in 1..Len(b) :
                      b[i] = 0 /\ \A j \in (i + 1)..Len(b) : b[j] = 1
         IN  [i \in 1..Len(b) |-> IF i < k THEN b[i]
                                  ELSE IF i = k THEN 1 ELSE 0]

\* The double nearest to the number whose binary digits are b, the first of
\* them a one of weight 2^e, followed by more nonzero digits iff sticky.
RoundNearestEven(b, sticky, e) ==
    IF Len(b) <= MantBits THEN [e |-> e, m |-> b \o Zeros(MantBits - Len(b))]
    ELSE LET kept == SubSeq(b, 1, MantBits)
             guard == b[MantBits + 1]
             rest == sticky \/ \E i \in (MantBits + 2)..Len(b) : b[i] = 1
             up == guard = 1 /\ (rest \/ kept[MantBits] = 1)
         IN  IF ~up THEN [e |-> e, m |-> kept]
             ELSE IF \A i \in 1..MantBits : kept[i] = 1
                  THEN [e |-> e + 1, m |-> <<1>> \o Zeros(MantBits - 1)]
                  ELSE [e |-> e, m |-> BitsSucc(kept)]

\* the number a bit string of at most LimbBits digits stands for, and back
LimbBits == 24
DivLimbBits == 15
RECURSIVE NatOfBits(_)
NatOfBits(b) ==
    IF b = <<>> THEN 0
    ELSE 2 * NatOfBits(SubSeq(b, 1, Len(b) - 1)) + b[Len(b)]

BitsOfWidth(n, k) == [i \in 1..k |-> (n \div 2 ^ (k - i)) % 2]

\* the binary digits of the quotient of the number (r, then digits) by d,
\* a limb of the dividend at a time, and the remainder left behind them
RECURSIVE LongDivision(_, _, _, _)
LongDivision(digits, d, r, quotient) ==
    IF digits = <<>> THEN <<quotient, r>>
    ELSE LET k == IF Len(digits) < DivLimbBits THEN Len(digits)
                  ELSE DivLimbBits
             t == r * 2 ^ k + NatOfBits(SubSeq(digits, 1, k))
         IN  LongDivision(SubSeq(digits, k + 1, Len(digits)), d, t % d,
                          quotient \o BitsOfWidth(t \div d, k))

BitLength(n) == CHOOSE k \in 0..30 : n < 2 ^ k /\ (k = 0 \/ n >= 2 ^ (k - 1))
BitsOfNat(n) == BitsOfWidth(n, BitLength(n))

\* float(x) / n for a Python int n > 0, and a / b for Python ints (true
\* division): the exactly rounded quotient
FDivNat(x, n) ==
    IF x.m = <<>> THEN F_ZERO
    ELSE LET extra == Len(BitsOfNat(n)) + 1
             qr == LongDivision(x.m \o Zeros(extra), n, 0, <<>>)
             q == StripZeros(qr[1])
         IN  RoundNearestEven(q, qr[2] # 0,
                              x.e - (MantBits + extra - Len(q)))

FOfNat(n) ==
    IF n = 0 THEN F_ZERO
    ELSE LET b == BitsOfNat(n)
         IN  [e |-> Len(b) - 1, m |-> b \o Zeros(MantBits - Len(b))]

TrueDiv(a, b) == FDivNat(FOfNat(a), b)

\* a + b on bit strings of equal length, a limb at a time from the right:
\* the sum's digits, one longer
RECURSIVE BitsAdd(_, _, _, _)
BitsAdd(a, b, carry, sum) ==
    IF a = <<>> THEN <<carry>> \o sum
    ELSE LET k == IF Len(a) < LimbBits THEN Len(a) ELSE LimbBits
             cut == Len(a) - k
             t == NatOfBits(SubSeq(a, cut + 1, Len(a)))
                      + NatOfBits(SubSeq(b, cut + 1, Len(b))) + carry
         IN  BitsAdd(SubSeq(a, 1, cut), SubSeq(b, 1, cut), t \div 2 ^ k,
                     BitsOfWidth(t % 2 ^ k, k) \o sum)

FGt(x, y) ==
    IF x.m = <<>> THEN FALSE
    ELSE IF y.m = <<>> THEN TRUE
    ELSE IF x.e # y.e THEN x.e > y.e
    ELSE \E i \in 1..MantBits :
             /\ x.m[i] > y.m[i]
             /\ \A j \in 1..(i - 1) : x.m[j] = y.m[j]
FGe(x, y) == ~FGt(y, x)
FEq(x, y) == x = y

\* x + y
FAdd(x, y) ==
    IF x.m = <<>> THEN y
    ELSE IF y.m = <<>> THEN x
    ELSE LET hi == IF x.e >= y.e THEN x ELSE y
             lo == IF x.e >= y.e THEN y ELSE x
             d == hi.e - lo.e
         IN  IF d > MantBits + 1 THEN hi
             ELSE LET s == BitsAdd(hi.m \o Zeros(d), Zeros(d) \o lo.m,
                                   0, <<>>)
                  IN  IF s[1] = 1 THEN RoundNearestEven(s, FALSE, hi.e + 1)
                      ELSE RoundNearestEven(Tail(s), FALSE, hi.e)

\* a - b on bit strings of equal length, a >= b, a limb at a time from the
\* right
RECURSIVE BitsSub(_, _, _, _)
BitsSub(a, b, borrow, diff) ==
    IF a = <<>> THEN diff
    ELSE LET k == IF Len(a) < LimbBits THEN Len(a) ELSE LimbBits
             cut == Len(a) - k
             t == NatOfBits(SubSeq(a, cut + 1, Len(a)))
                      - NatOfBits(SubSeq(b, cut + 1, Len(b))) - borrow
         IN  BitsSub(SubSeq(a, 1, cut), SubSeq(b, 1, cut),
                     IF t < 0 THEN 1 ELSE 0,
                     BitsOfWidth(IF t < 0 THEN t + 2 ^ k ELSE t, k) \o diff)

\* x - y for x >= y
FSub(x, y) ==
    IF y.m = <<>> THEN x
    ELSE LET d == x.e - y.e
         IN  IF d > MantBits + 2 THEN x
             ELSE LET diff == BitsSub(x.m \o Zeros(d), Zeros(d) \o y.m,
                                      0, <<>>)
                      q == StripZeros(diff)
                  IN  IF q = <<>> THEN F_ZERO
                      ELSE RoundNearestEven(q, FALSE,
                                            x.e - (Len(diff) - Len(q)))

\* a double of either sign: its magnitude, and whether it is negative
Signed(neg, x) == [neg |-> neg, abs |-> x]

\* a + b and a - b of doubles of either sign
SAdd(a, b) ==
    IF a.neg = b.neg THEN Signed(a.neg, FAdd(a.abs, b.abs))
    ELSE IF a.abs = b.abs THEN Signed(FALSE, F_ZERO)
    ELSE IF FGt(a.abs, b.abs) THEN Signed(a.neg, FSub(a.abs, b.abs))
    ELSE Signed(b.neg, FSub(b.abs, a.abs))

SSub(a, b) == SAdd(a, Signed(~b.neg, b.abs))

F_ONE == FOfNat(1)
F_HALF == TrueDiv(1, 2)

\* the literals 0.001, 0.05, 0.01: the doubles nearest to them
VIDEO_THRESHOLD == TrueDiv(1, 1000)
TEXT_THRESHOLD == TrueDiv(1, 20)
IMAGE_THRESHOLD == TrueDiv(1, 100)

\* collections.Counter(text_words)[word]
Counter(text_words, word) ==
    Cardinality({i \in 1..Len(text_words) : text_words[i] = word})

\* The order in which a for loop visits a set of str depends on the hashes
\* of this process: set_order lists the words of the query in that order.
\* What sum() does with floats depends on the interpreter: up to Python
\* 3.11 it adds them one after the other, from 3.12 on it carries a
\* compensation for the rounding errors (Neumaier).  The repository pins no
\* version: sum_compensated says which sum() this process has.
VARIABLES set_order, sum_compensated

iteration(words) == SelectSeq(set_order, LAMBDA w : w \in words)

RECURSIVE Orderings(_)
Orderings(S) ==
    IF S = {} THEN {<<>>}
    ELSE UNION {{<<x>> \o p : p \in Orderings(S \ {x})} : x \in S}

\* the orders a process may give the words of query q
SetOrders(q) == Orderings(Range(findall(lower(q))))

\* text_freq[word]/total_words for word in ..., in the order of iteration
Quotients(text_words, words) ==
    [i \in 1..Len(words) |->
        TrueDiv(Counter(text_words, words[i]), Len(text_words))]

\* sum() up to Python 3.11: each addition rounded
RECURSIVE SumSequential(_, _)
SumSequential(items, acc) ==
    IF items = <<>> THEN acc
    ELSE SumSequential(Tail(items), FAdd(acc, Head(items)))

\* sum() from Python 3.12 on: the rounding error of each addition is added
\* to c, and c to the sum at the end if it is not zero
RECURSIVE SumCompensated(_, _, _)
SumCompensated(items, f_result, c) ==
    IF items = <<>>
    THEN IF c.abs # F_ZERO THEN SAdd(f_result, c) ELSE f_result
    ELSE LET x == Signed(FALSE, Head(items))
             t == SAdd(f_result, x)
             err == IF FGe(f_result.abs, x.abs)
                    THEN SAdd(SSub(f_result, t), x)
                    ELSE SAdd(SSub(x, t), f_result)
         IN  SumCompensated(Tail(items), t, SAdd(c, err))

\* sum(text_freq[word]/total_words for word in ...): 0 for no word; the
\* first quotient is added to the int 0, the others to a float
SumFreq(text_words, words) ==
    LET items == Quotients(text_words, words)
    IN  IF items = <<>> THEN F_ZERO
        ELSE IF sum_compensated
        THEN SumCompensated(Tail(items), Signed(FALSE, Head(items)),
                            Signed(FALSE, F_ZERO)).abs
        ELSE SumSequential(items, F_ZERO)

\* variant: the substring test on the raw strings, without lower()
exact_match_bonus_raw(query, text) ==
    IF contains(text, query) THEN F_ONE ELSE F_ZERO

exact_match_bonus(query, text) ==
    IF contains(lower(text), lower(query)) THEN F_ONE ELSE F_ZERO

title_match_bonus(query_words, text) ==
    IF /\ contains(lower(text), <<"t","i","t","l","e">>)
       /\ \E word \in query_words : contains(lower(text), word)
    THEN F_HALF ELSE F_ZERO

\* A Python value handed to the scorer or taken for the query: a str, or a
\* value of another type (None, a number, a list), of which only its truth
\* matters here.
Str(s) == [is_str |-> TRUE, str |-> s, truthy |-> s # <<>>]
NotStr(truthy) == [is_str |-> FALSE, str |-> <<>>, truthy |-> truthy]

\* lines 67-68 answer 0.0 for an argument that is not truthy; lower() of a
\* value that is no str raises, which lines 88-90 answer with 0.0
calculate_tfidf_score(query, text) ==
    IF ~query.truthy \/ ~text.truthy THEN F_ZERO
    ELSE IF ~query.is_str \/ ~text.is_str THEN F_ZERO
    ELSE LET query_words == Range(findall(lower(query.str)))
             text_words == findall(lower(text.str))
         IN  IF query_words = {} \/ text_words = <<>> THEN F_ZERO
             ELSE LET present ==
                          SelectSeq(iteration(query_words),
                                    LAMBDA w : w \in Range(text_words))
                      base_score ==
                          FDivNat(SumFreq(text_words, present),
                                  Cardinality(query_words))
                  IN  FAdd(FAdd(base_score,
                                exact_match_bonus(query.str, text.str)),
                           title_match_bonus(query_words, text.str))

\* ----------------------------------------------------------------- records
None == [type |-> "none"]

\* f"{title} {description}" of a videos document; a missing field reads ''
searchable_text(video_data) ==
    (IF video_data.has_title THEN video_data.title ELSE <<>>)
        \o <<" ">> \o video_data.description

\* data.get("description", f"Image from {source_file} page {page}")
image_description(data) ==
    IF data.has_description THEN data.description
    ELSE Str(<<"I","m","a","g","e"," ","f","r","o","m"," ">> \o data.source_file
                 \o <<" ","p","a","g","e"," ">> \o data.page)

\* get_public_url: None for an empty path, a URL otherwise
get_public_url(image_path) == IF image_path = <<>> THEN None ELSE
    [type |-> "url", path |-> image_path]

\* outcome of one read of a collection: the stream delivers the first
\* Delivered(docs, fail) documents and then, unless fail = NoFail, raises
NoFail == -1
FailPoints(docs) == {NoFail} \cup (0..Len(docs))
Delivered(docs, fail) == IF fail = NoFail THEN docs ELSE SubSeq(docs, 1, fail)
ReadEntry(coll, fail) == [coll |-> coll, ok |-> (fail = NoFail)]

\* max(results, key=lambda x: x["score"]): the first element of the greatest
\* score
RECURSIVE max_from(_, _, _)
max_from(results, i, best) ==
    IF i > Len(results) THEN best
    ELSE max_from(results, i + 1,
                  IF FGt(results[i].score, best.score) THEN results[i]
                  ELSE best)

\* variant: the first element, whatever its score
first_result(results) == results[1]

max_by_score(results) == max_from(results, 2, results[1])

\* variant: non-strict comparison
at_or_above_threshold(score, threshold) == FGe(score, threshold)

above_threshold(score, threshold) == FGt(score, threshold)

\* the scoring half of the loop of search_videos: every document of the
\* collection with its score against f"{title} {description}"
score_videos(q, docs) ==
    [i \in 1..Len(docs) |->
        [type |-> "video",
         score |-> calculate_tfidf_score(Str(q),
                                         Str(searchable_text(docs[i]))),
         doc |-> docs[i]]]

\* the scoring half of the pdf_text loop
score_texts(q, docs) ==
    [i \in 1..Len(docs) |->
        [type |-> "text",
         score |-> calculate_tfidf_score(Str(q), docs[i].content),
         doc |-> docs[i]]]

\* the scoring half of the pdf_images_new loop
score_images(q, docs) ==
    [i \in 1..Len(docs) |->
        [type |-> "image",
         score |-> calculate_tfidf_score(Str(q), image_description(docs[i])),
         doc |-> docs[i]]]

\* variant: every video document, whatever its score
search_videos_unfiltered(scored, fail) ==
    IF fail # NoFail THEN <<>> ELSE scored

\* search_videos on the scored documents of videos: [] when the read raises
\* anywhere, else the documents whose score exceeds VIDEO_THRESHOLD, in
\* stream order
search_videos(scored, fail) ==
    IF fail # NoFail THEN <<>>
    ELSE SelectSeq(scored,
                   LAMBDA r : above_threshold(r.score, VIDEO_THRESHOLD))

\* variant: the keywords matched against the words of the query
is_video_request_words(q) ==
    \E word \in {<<"v","i","d","e","o">>, <<"w","a","t","c","h">>,
                 <<"p","l","a","y">>} :
        word \in Range(findall(lower(q)))

\* search_content_with_retry, line 154
is_video_request(q) ==
    \E word \in {<<"v","i","d","e","o">>, <<"w","a","t","c","h">>,
                 <<"p","l","a","y">>,
                 <<"s","h","o","w"," ","v","i","d","e","o">>} :
        contains(lower(q), word)

\* webhook, line 268: the test that forces the video search
explicit_video_request(q) ==
    \E word \in {<<"v","i","d","e","o">>, <<"w","a","t","c","h">>,
                 <<"p","l","a","y">>,
                 <<"s","h","o","w"," ","v","i","d","e","o">>} :
        contains(lower(q), word)

\* the pdf_text loop of search_content_with_retry: what it appends to
\* results before the read ends or raises
text_results(scored, fail) ==
    SelectSeq(Delivered(scored, fail),
              LAMBDA r : above_threshold(r.score, TEXT_THRESHOLD))

\* variant: no image is appended
image_results_none(scored, fail) == <<>>

\* the pdf_images_new loop of search_content_with_retry
image_results(scored, fail) ==
    SelectSeq(Delivered(scored, fail),
              LAMBDA r : /\ r.doc.image_path # <<>>
                         /\ get_public_url(r.doc.image_path) # None
                         /\ above_threshold(r.score, IMAGE_THRESHOLD))

\* variant: new entries put in front of the list
extend_front(results, more) == more \o results

\* results.append(...) in a loop, results.extend(video_results)
extend(results, more) == results \o more

\* ---------------------------------------------------------------- payloads
\* a payload is its status, the two flags, the type of the selected result
\* and the document its text, title, URL, source and page are read from
\* variant: the image flag raised for every payload
success_response_image_flag(data) ==
    [status |-> 200,
     has_image |-> TRUE,
     has_video |-> (data.type = "video"),
     type |-> data.type,
     doc |-> data.doc,
     message |-> "ok"]

success_response(data) ==
    [status |-> 200,
     has_image |-> (data.type = "image"),
     has_video |-> (data.type = "video"),
     type |-> data.type,
     doc |-> data.doc,
     message |-> "ok"]

error_response(message, status_code) ==
    [status |-> status_code, has_image |-> FALSE, has_video |-> FALSE,
     type |-> "error", doc |-> None, message |-> message]

NoResponse == [status |-> 0, has_image |-> FALSE, has_video |-> FALSE,
               type |-> "pending", doc |-> None, message |-> "pending"]

max_retries == 3

\* variant: a backoff that grows by two seconds
sleep_time_linear(n) == IF 2 * n < 10 THEN 2 * n ELSE 10

\* min(2 ** retries, 10)
sleep_time(n) == IF 2 ^ n < 10 THEN 2 ^ n ELSE 10

\* ---------------------------------------------------------------- scenarios
\* n copies of the word w, each followed by a blank
Rep(w, n) ==
    [i \in 1..(n * (Len(w) + 1)) |->
        LET k == ((i - 1) % (Len(w) + 1)) + 1
        IN  IF k <= Len(w) THEN w[k] ELSE " "]

SeqsUpTo(S, n) == UNION {[1..k -> S] : k \in 0..n}

S_cat == <<"c","a","t">>
S_play == <<"p","l","a","y">>

\* a request: whether its content type is JSON, whether its body parses, and
\* the value the extraction of lines 242 to 259 leaves in query
Request(is_json, parses, q) ==
    [is_json |-> is_json, parses |-> parses, query |-> q]

\* raw queries of the general scenarios: empty, blank, a video request, a
\* padded mixed-case word, a fragment of a word, two words
GeneralQueries ==
    {<<>>, <<" ">>, S_play, <<" ","C","a","t"," ">>, <<"l","a","y">>,
     <<"c","a","t"," ","d","o","g">>}

TextDoc(content) == [content |-> content]
ImageDoc(path, has_description, description) ==
    [image_path |-> path, has_description |-> has_description,
     description |-> description, source_file |-> S_play, page |-> <<"1">>]
VideoDoc(has_title, title, description) ==
    [has_title |-> has_title, title |-> title, description |-> description]

GeneralTexts ==
    {TextDoc(Str(S_cat)), TextDoc(Str(S_play \o <<" ">> \o S_cat))}
GeneralImages ==
    {ImageDoc(<<"p">>, TRUE, Str(S_cat)), ImageDoc(<<>>, TRUE, Str(S_cat)),
     ImageDoc(<<"p">>, FALSE, Str(<<>>))}
GeneralVideos ==
    {VideoDoc(TRUE, S_cat, <<>>),
     VideoDoc(TRUE, S_play, <<"x"," ","y">>),
     VideoDoc(FALSE, <<>>, S_play)}

\* the threshold scenarios: four query words, and documents whose scores are
\* exactly 0.05, 0.01 and 0.001, or twice that
BoundaryQuery == <<"a"," ","b"," ","c"," ","d">>
BoundaryTexts ==
    {TextDoc(Str(Rep(<<"a">>, 1) \o Rep(<<"x">>, 4))),
     TextDoc(Str(Rep(<<"a">>, 1) \o Rep(<<"b">>, 1) \o Rep(<<"x">>, 3)))}
BoundaryImages ==
    {ImageDoc(<<"p">>, TRUE, Str(Rep(<<"a">>, 1) \o Rep(<<"x">>, 24))),
     ImageDoc(<<"p">>, TRUE,
              Str(Rep(<<"a">>, 1) \o Rep(<<"b">>, 1) \o Rep(<<"x">>, 23)))}
BoundaryVideos ==
    {VideoDoc(TRUE, <<"a">>, Rep(<<"x">>, 249)),
     VideoDoc(TRUE, <<"a">>, Rep(<<"b">>, 1) \o Rep(<<"x">>, 248))}

\* scores that rounding moves.  Against the three query words a, b, c: a
\* text of twenty words with each of them once scores above 0.05, one with
\* a three times scores below it, the score of a text with a once, b
\* twice and c three times depends on the order of the additions, and that
\* of a text of 140 words with a twice, b seven times and c twelve times is
\* above 0.05 when sum() adds one after the other and below it when sum()
\* compensates.  Against the four query words of BoundaryQuery the score of
\* a text of eighty words is 0.05 or above it, by the order of the words.
RoundingQuery == <<"a"," ","b"," ","c">>
RoundingQueries == {RoundingQuery, BoundaryQuery}
RoundingTexts ==
    {TextDoc(Str(<<"a"," ","x"," ","b"," ","x"," ","c"," ">>
                     \o Rep(<<"x">>, 15))),
     TextDoc(Str(Rep(<<"a">>, 3) \o Rep(<<"x">>, 17))),
     TextDoc(Str(Rep(<<"a">>, 1) \o Rep(<<"b">>, 2) \o Rep(<<"c">>, 3)
                     \o Rep(<<"x">>, 4))),
     TextDoc(Str(Rep(<<"a">>, 2) \o Rep(<<"b">>, 7) \o Rep(<<"c">>, 12)
                     \o Rep(<<"x">>, 119))),
     TextDoc(Str(Rep(<<"a">>, 8) \o Rep(<<"b">>, 1) \o Rep(<<"c">>, 4)
                     \o Rep(<<"d">>, 3) \o Rep(<<"x">>, 64)))}

\* values that are no str: a number, None
OtherValues == {NotStr(TRUE), NotStr(FALSE)}
OtherTexts == {TextDoc(v) : v \in OtherValues} \cup {TextDoc(Str(S_cat))}
OtherImages ==
    {ImageDoc(<<"p">>, TRUE, v) : v \in OtherValues}
        \cup {ImageDoc(<<"p">>, TRUE, Str(S_cat))}

\* f"Image from {file_name} on page {page_num + 1}"
ingest_description(file_name, page) ==
    <<"I","m","a","g","e"," ","f","r","o","m"," ">> \o file_name
        \o <<" ","o","n"," ","p","a","g","e"," ">> \o page

\* analyze_image_with_vision for an image with labels and neither objects
\* nor text: f"Contains: {', '.join(labels)}"
analyze_image_with_vision(labels) ==
    <<"C","o","n","t","a","i","n","s",":"," ">> \o labels

\* the documents process_pdf and extract_images write: the text of a page;
\* an image with the description Vision gives it, or with the default one
IngestTexts == GeneralTexts
IngestImages ==
    {ImageDoc(<<"p">>, TRUE, Str(analyze_image_with_vision(S_cat))),
     ImageDoc(<<"p">>, TRUE, Str(ingest_description(S_play, <<"1">>)))}

\* -------------------------------------------------------------------- state
VARIABLES
    request,         \* the request: content type, body, the query it carries
    pdf_text,        \* documents of collection pdf_text, in stream order
    pdf_images_new,  \* documents of collection pdf_images_new
    videos,          \* documents of collection videos
    pending_pages,   \* documents process_pdf has yet to add to pdf_text
    pending_images,  \* documents extract_images has yet to add
    pc,              \* position of the handler
    query,           \* webhook's local query after strip()
    retries,         \* wrapper's local retries
    calls,           \* invocations of search_content_with_retry's body
    slept,           \* arguments of time.sleep, in order
    text_docs,       \* what pdf_text held when this invocation read it,
                     \* each document with the score the loop computes
    image_docs,      \* the same of pdf_images_new
    videos_docs,     \* the same of videos and the latest search_videos
    results,         \* the list results of the latest invocation
    result,          \* value returned by the wrapped search
    reads,           \* collection reads so far, in order, with their outcome
    response,        \* the response of the handler
    scored           \* scorer specification: arguments and value of one call

vars == <<request, pdf_text, pdf_images_new, videos, pending_pages,
          pending_images, set_order, sum_compensated, pc, query, retries,
          calls, slept, text_docs, image_docs, videos_docs, results, result,
          reads, response, scored>>

\* what no step of the handler changes
repo == <<request, pdf_text, pdf_images_new, videos, pending_pages,
          pending_images, set_order, sum_compensated>>

\* the locals of the wrapper, and what the handler has that the search does
\* not touch
wrapper_locals == <<retries, calls, slept>>
webhook_locals == <<query, response, scored>>

\* the handler's locals
locals == <<pc, query, retries, calls, slept, text_docs, image_docs,
            videos_docs, results, result, reads, response>>

NoScore == [query |-> Str(<<>>), text |-> Str(<<>>), score |-> F_ZERO,
            called |-> FALSE]

InitLocals ==
    /\ pc = "start"
    /\ query = <<>>
    /\ retries = 0
    /\ calls = 0
    /\ slept = <<>>
    /\ text_docs = <<>>
    /\ image_docs = <<>>
    /\ videos_docs = <<>>
    /\ results = <<>>
    /\ result = None
    /\ reads = <<>>
    /\ response = NoResponse
    /\ scored = NoScore

\* no PDF is being processed
NoIngestion ==
    /\ pending_pages = <<>>
    /\ pending_images = <<>>

JsonRequests(queries) == {Request(TRUE, TRUE, Str(q)) : q \in queries}

InitGeneral ==
    /\ request \in JsonRequests(GeneralQueries)
    /\ pdf_text \in SeqsUpTo(GeneralTexts, MaxDocs)
    /\ pdf_images_new \in SeqsUpTo(GeneralImages, MaxDocs)
    /\ videos \in SeqsUpTo(GeneralVideos, MaxDocs)

\* requests that are not JSON, whose body does not parse, or whose query is
\* no str
InitMalformed ==
    /\ request \in {Request(FALSE, TRUE, Str(q)) : q \in GeneralQueries}
                       \cup {Request(TRUE, FALSE, Str(<<>>))}
                       \cup {Request(TRUE, TRUE, v) : v \in OtherValues}
    /\ pdf_text \in SeqsUpTo(GeneralTexts, 1)
    /\ pdf_images_new = <<>>
    /\ videos = <<>>

InitBoundary ==
    /\ request \in JsonRequests({BoundaryQuery})
    /\ pdf_text \in SeqsUpTo(BoundaryTexts, 1)
    /\ pdf_images_new \in SeqsUpTo(BoundaryImages, 1)
    /\ videos \in SeqsUpTo(BoundaryVideos, 1)

InitRounding ==
    /\ request \in JsonRequests(RoundingQueries)
    /\ pdf_text \in SeqsUpTo(RoundingTexts, MaxDocs)
    /\ pdf_images_new = <<>>
    /\ videos = <<>>

\* documents whose content or description is no str
InitOther ==
    /\ request \in JsonRequests({S_cat})
    /\ pdf_text \in SeqsUpTo(OtherTexts, 1)
    /\ pdf_images_new \in SeqsUpTo(OtherImages, 1)
    /\ videos = <<>>

\* two documents in pdf_text and in videos, for the two queries that match
\* documents of every type
InitPairs ==
    /\ request \in JsonRequests({S_play, <<" ","C","a","t"," ">>})
    /\ pdf_text \in [1..2 -> GeneralTexts]
    /\ pdf_images_new \in SeqsUpTo(GeneralImages, 1)
    /\ videos \in [1..2 -> GeneralVideos]

\* queries that tell the keyword tests apart: a keyword inside a longer
\* word, in upper case, in mixed case behind a blank, the two-word keyword,
\* and three near misses
IntentQueries ==
    {<<"d","i","s","p","l","a","y">>, <<"W","A","T","C","H">>,
     <<" ","V","i","d","e","o">>,
     <<"s","h","o","w"," ","v","i","d","e","o">>,
     <<"s","h","o","w"," ","v","i","d">>, <<"p","l","a"," ","y">>,
     <<"w","a","t","c">>}

InitIntent ==
    /\ request \in JsonRequests(IntentQueries)
    /\ pdf_text \in SeqsUpTo(GeneralTexts, 1)
    /\ pdf_images_new = <<>>
    /\ videos \in SeqsUpTo(GeneralVideos, 1)

\* queries of white space other than the blank, alone and around a word
SpaceQueries ==
    {<<"\f">>, <<"\t", "\n">>, <<"\f","c","a","t","\r">>}

InitSpace ==
    /\ request \in JsonRequests(SpaceQueries)
    /\ pdf_text \in SeqsUpTo(GeneralTexts, 1)
    /\ pdf_images_new = <<>>
    /\ videos = <<>>

\* a PDF is processed while the request is handled: pdf_processor has up to
\* MaxDocs pages and an image to add
InitIngestion ==
    /\ request \in JsonRequests({S_play, <<" ","C","a","t"," ">>})
    /\ pdf_text \in SeqsUpTo(GeneralTexts, 1)
    /\ pdf_images_new = <<>>
    /\ videos \in {<<>>, <<VideoDoc(TRUE, S_cat, <<>>)>>}
    /\ pending_pages \in SeqsUpTo(IngestTexts, MaxDocs)
    /\ pending_images \in SeqsUpTo(IngestImages, 1)

Init == /\ InitLocals
        /\ \/ InitGeneral /\ NoIngestion
           \/ InitMalformed /\ NoIngestion
           \/ InitBoundary /\ NoIngestion
           \/ InitRounding /\ NoIngestion
           \/ InitOther /\ NoIngestion
           \/ InitPairs /\ NoIngestion
           \/ InitIntent /\ NoIngestion
           \/ InitSpace /\ NoIngestion
           \/ InitIngestion
        /\ set_order \in SetOrders(request.query.str)
        /\ sum_compensated \in BOOLEAN

\* ------------------------------------------------------------------ actions
Finish(resp) == /\ response' = resp
                /\ pc' = "done"

\* webhook, lines 233-265 and 287-289: content type, parsing of the body,
\* query extraction, strip, validation.  get_json() on a body that does not
\* parse and strip() on a query that is no str raise, which is answered 503.
webhook_validate ==
    /\ pc = "start"
    /\ IF ~request.is_json
       THEN /\ Finish(error_response("Invalid content type", 400))
            /\ UNCHANGED query
       ELSE IF ~request.parses \/ ~request.query.is_str
       THEN /\ Finish(error_response("Service unavailable", 503))
            /\ UNCHANGED query
       ELSE /\ query' = strip(request.query.str)
            /\ IF query' = <<>>
               THEN Finish(error_response("Invalid query", 400))
               ELSE /\ pc' = "intent"
                    /\ UNCHANGED response
    /\ UNCHANGED <<repo, wrapper_locals, text_docs, image_docs, videos_docs,
                   results, result, reads, scored>>

\* webhook, lines 267-274: the forced video search of a video request
webhook_force_video ==
    /\ pc = "intent"
    /\ IF explicit_video_request(query)
       THEN \E vdocs \in {score_videos(query, videos)} :
            \E vfail \in FailPoints(videos) :
              LET video_results == search_videos(vdocs, vfail)
              IN  /\ videos_docs' = vdocs
                  /\ reads' = Append(reads, ReadEntry("videos", vfail))
                  /\ IF video_results # <<>>
                     THEN LET best_video == max_by_score(video_results)
                          IN  IF best_video.doc.has_title
                              THEN Finish(success_response(best_video))
                              ELSE Finish(error_response(
                                              "Service unavailable", 503))
                     ELSE /\ pc' = "search"
                          /\ UNCHANGED response
       ELSE /\ pc' = "search"
            /\ UNCHANGED <<videos_docs, reads, response>>
    /\ UNCHANGED <<repo, query, wrapper_locals, text_docs, image_docs,
                   results, result, scored>>

\* wrapper, lines 42-49, and search_content_with_retry, lines 151-166: a pass
\* of the retry loop invokes the search, which for a video request looks
\* the videos up and returns the best of them; the logging of
\* best_video['title'] raises KeyError for a video without title, and the
\* wrapper sleeps
wrapper_attempt ==
    /\ pc = "search"
    /\ retries < max_retries
    /\ calls' = calls + 1
    /\ results' = <<>>
    /\ text_docs' = <<>>
    /\ image_docs' = <<>>
    /\ IF is_video_request(query)
       THEN \E vdocs \in {score_videos(query, videos)} :
            \E vfail \in FailPoints(videos) :
              LET video_results == search_videos(vdocs, vfail)
              IN  /\ videos_docs' = vdocs
                  /\ reads' = Append(reads, ReadEntry("videos", vfail))
                  /\ IF video_results # <<>>
                     THEN LET best_video == max_by_score(video_results)
                          IN  IF best_video.doc.has_title
                              THEN /\ result' = best_video
                                   /\ pc' = "returned"
                                   /\ UNCHANGED <<retries, slept>>
                              ELSE /\ retries' = retries + 1
                                   /\ slept' = Append(slept,
                                                      sleep_time(retries'))
                                   /\ UNCHANGED <<pc, result>>
                     ELSE /\ pc' = "text"
                          /\ UNCHANGED <<retries, slept, result>>
       ELSE /\ pc' = "text"
            /\ UNCHANGED <<videos_docs, reads, retries, slept, result>>
    /\ UNCHANGED <<repo, webhook_locals>>

\* search_content_with_retry, lines 169-185: the read of pdf_text
search_text ==
    /\ pc = "text"
    /\ \E tdocs \in {score_texts(query, pdf_text)} :
       \E tfail \in FailPoints(pdf_text) :
         /\ text_docs' = tdocs
         /\ reads' = Append(reads, ReadEntry("pdf_text", tfail))
         /\ results' = extend(results, text_results(tdocs, tfail))
    /\ pc' = "images"
    /\ UNCHANGED <<repo, webhook_locals, wrapper_locals, image_docs,
                   videos_docs, result>>

\* search_content_with_retry, lines 187-216: the read of pdf_images_new
search_images ==
    /\ pc = "images"
    /\ \E idocs \in {score_images(query, pdf_images_new)} :
       \E ifail \in FailPoints(pdf_images_new) :
         /\ image_docs' = idocs
         /\ reads' = Append(reads, ReadEntry("pdf_images_new", ifail))
         /\ results' = extend(results, image_results(idocs, ifail))
    /\ pc' = "videos"
    /\ UNCHANGED <<repo, webhook_locals, wrapper_locals, text_docs,
                   videos_docs, result>>

\* search_content_with_retry, lines 218-229: the videos of a request that is
\* no video request, and the best of results
search_select ==
    /\ pc = "videos"
    /\ IF is_video_request(query)
       THEN UNCHANGED <<videos_docs, reads, results>>
       ELSE \E vdocs \in {score_videos(query, videos)} :
            \E vfail \in FailPoints(videos) :
              /\ videos_docs' = vdocs
              /\ reads' = Append(reads, ReadEntry("videos", vfail))
              /\ results' = extend(results, search_videos(vdocs, vfail))
    /\ result' = IF results' # <<>> THEN max_by_score(results') ELSE None
    /\ pc' = "returned"
    /\ UNCHANGED <<repo, webhook_locals, wrapper_locals, text_docs,
                   image_docs>>

\* wrapper, lines 50-51, and webhook, lines 287-289: the bare raise after
\* the loop raises RuntimeError, which the handler answers with 503
wrapper_exhausted ==
    /\ pc = "search"
    /\ retries >= max_retries
    /\ Finish(error_response("Service unavailable", 503))
    /\ UNCHANGED <<repo, query, wrapper_locals, text_docs, image_docs,
                   videos_docs, results, result, reads, scored>>

\* webhook, lines 276-285
webhook_respond ==
    /\ pc = "returned"
    /\ IF result = None
       THEN Finish(error_response("No results found", 404))
       ELSE Finish(success_response(result))
    /\ UNCHANGED <<repo, query, wrapper_locals, text_docs, image_docs,
                   videos_docs, results, result, reads, scored>>

\* a document that add() stores under a fresh random id takes any place in
\* the order in which a stream delivers the collection
InsertAt(docs, i, doc) ==
    SubSeq(docs, 1, i) \o <<doc>> \o SubSeq(docs, i + 1, Len(docs))

\* pdf_processor.process_pdf, lines 96-113: the document of the next page
\* is added to pdf_text
process_pdf ==
    /\ pending_pages # <<>>
    /\ \E i \in 0..Len(pdf_text) :
          pdf_text' = InsertAt(pdf_text, i, Head(pending_pages))
    /\ pending_pages' = Tail(pending_pages)
    /\ UNCHANGED <<request, pdf_images_new, videos, pending_images, set_order,
                   sum_compensated, locals, scored>>

\* pdf_processor.extract_images, lines 209-246, which lines 283-286 run
\* once process_pdf is through: the document of the next image is added to
\* pdf_images_new
extract_images ==
    /\ pending_pages = <<>>
    /\ pending_images # <<>>
    /\ \E i \in 0..Len(pdf_images_new) :
          pdf_images_new' = InsertAt(pdf_images_new, i, Head(pending_images))
    /\ pending_images' = Tail(pending_images)
    /\ UNCHANGED <<request, pdf_text, videos, pending_pages, set_order,
                   sum_compensated, locals, scored>>

Next == \/ webhook_validate
        \/ webhook_force_video
        \/ wrapper_attempt
        \/ search_text
        \/ search_images
        \/ search_select
        \/ wrapper_exhausted
        \/ webhook_respond
        \/ process_pdf
        \/ extract_images

Spec == Init /\ [][Next]_vars

\* ------------------------------------------------- scorer specification
\* one call of calculate_tfidf_score on every query and text over a small
\* alphabet (a letter in both cases, another letter, a blank, a punctuation
\* mark that is no word character and the underscore, which is one), and on
\* values that are no str
ScoreAlphabet == {"a", "A", "b", " ", ".", "_"}

ScoreValues(n) ==
    {Str(s) : s \in SeqsUpTo(ScoreAlphabet, n)} \cup OtherValues

InitScore ==
    /\ scored \in [query : ScoreValues(MaxQLen),
                   text : ScoreValues(MaxTLen),
                   score : {F_ZERO}, called : {FALSE}]
    /\ set_order \in SetOrders(scored.query.str)
    /\ sum_compensated \in BOOLEAN
    /\ request = Request(TRUE, TRUE, Str(<<>>))
    /\ pdf_text = <<>>
    /\ pdf_images_new = <<>>
    /\ videos = <<>>
    /\ NoIngestion
    /\ pc = "score"
    /\ query = <<>>
    /\ retries = 0
    /\ calls = 0
    /\ slept = <<>>
    /\ text_docs = <<>>
    /\ image_docs = <<>>
    /\ videos_docs = <<>>
    /\ results = <<>>
    /\ result = None
    /\ reads = <<>>
    /\ response = NoResponse

score_call ==
    /\ pc = "score"
    /\ scored' = [scored EXCEPT
                    !.score = calculate_tfidf_score(scored.query, scored.text),
                    !.called = TRUE]
    /\ pc' = "scored"
    /\ UNCHANGED <<repo, query, wrapper_locals, text_docs, image_docs,
                   videos_docs, results, result, reads, response>>

NextScore == score_call

SpecScore == InitScore /\ [][NextScore]_vars

\* ------------------------------------------------------ claim vocabulary
Candidate(type, text, doc) ==
    [type |-> type, score |-> calculate_tfidf_score(Str(query), text),
     doc |-> doc]

\* The candidates of the search are the documents its reads found in the
\* collections, with the scores its loops computed for them; an image
\* candidate is a document with an image path to build a URL from.
TextCandidates == Range(text_docs)
ImageCandidates == {c \in Range(image_docs) : c.doc.image_path # <<>>}
VideoCandidates == Range(videos_docs)

\* the candidates that the documents of the collections make
StoredCandidates ==
    {Candidate("text", pdf_text[i].content, pdf_text[i]) :
        i \in DOMAIN pdf_text}
    \cup {Candidate("image", image_description(pdf_images_new[i]),
                    pdf_images_new[i]) :
              i \in {j \in DOMAIN pdf_images_new :
                        pdf_images_new[j].image_path # <<>>}}
    \cup {Candidate("video", Str(searchable_text(videos[i])), videos[i]) :
              i \in DOMAIN videos}

ThresholdOf(type) ==
    CASE type = "text" -> TEXT_THRESHOLD
      [] type = "image" -> IMAGE_THRESHOLD
      [] type = "video" -> VIDEO_THRESHOLD

Eligible(S) == {c \in S : FGt(c.score, ThresholdOf(c.type))}

\* the pool of a general search whose reads all complete
GeneralPool ==
    Eligible(TextCandidates \cup ImageCandidates \cup VideoCandidates)

FallbackPool == Eligible(TextCandidates \cup ImageCandidates)

IsSelection(r, pool) ==
    IF pool = {} THEN r = None
    ELSE /\ r \in pool
         /\ \A p \in pool : FGe(r.score, p.score)

AllReadsOk == \A i \in DOMAIN reads : reads[i].ok
ReadOk(coll) == \A i \in DOMAIN reads : reads[i].coll = coll => reads[i].ok
CollOf(type) ==
    CASE type = "text" -> "pdf_text"
      [] type = "image" -> "pdf_images_new"
      [] type = "video" -> "videos"
ReadColls == [i \in DOMAIN reads |-> reads[i].coll]

IsBlank(s) == \A i \in DOMAIN s : IsSpace(s[i])
HasWordChar(s) == \E i \in DOMAIN s : IsWordChar(s[i])

\* the extraction of the query took place and left a str
ExtractedStr == request.parses /\ request.query.is_str

ValidRequest ==
    request.is_json /\ ExtractedStr /\ ~IsBlank(request.query.str)
VideoQuery == ValidRequest /\ is_video_request(request.query.str)
PlainQuery == ValidRequest /\ ~is_video_request(request.query.str)

\* the steps of the handler
Handler ==
    \/ webhook_validate
    \/ webhook_force_video
    \/ wrapper_attempt
    \/ search_text
    \/ search_images
    \/ search_select
    \/ wrapper_exhausted
    \/ webhook_respond

\* ------------------------------------------------------------------ claims

\* C1: a video request against a non-empty videos collection ends in a
\* response of type video, whatever the scores of the videos (reads
\* complete, every video carries a title).
C1_IntentOverride ==
    (/\ pc = "done"
     /\ VideoQuery
     /\ videos # <<>>
     /\ \A i \in DOMAIN videos : videos[i].has_title
     /\ AllReadsOk)
    => response.type = "video"

\* C2: for a query that is no video request and reads that all complete, the
\* list results holds exactly the text candidates above 0.05, the image
\* candidates above 0.01 and the video candidates above 0.001, the
\* candidates being the documents the reads found; the value returned is a
\* member of greatest score, and None exactly when the pool is empty.
C2_MaxSelection ==
    (pc = "returned" /\ PlainQuery /\ AllReadsOk)
    => /\ Range(results) = GeneralPool
       /\ IsSelection(result, GeneralPool)

\* C2 witness: an image was returned ahead of a lower-scored eligible
\* candidate of another type
C2_Witness ==
    /\ pc = "returned" /\ PlainQuery /\ AllReadsOk
    /\ result.type = "image"
    /\ \E p \in GeneralPool :
          p.type # "image" /\ FGt(result.score, p.score)

ClaimedRank(type) ==
    CASE type = "video" -> 1 [] type = "text" -> 2 [] type = "image" -> 3

SourceRank(type) ==
    CASE type = "text" -> 1 [] type = "image" -> 2 [] type = "video" -> 3

\* C3 as stated: among pool members of different types whose scores equal
\* the greatest score, the one returned is first in the order video, text,
\* image.
C3_TieBreakVideoFirst ==
    (pc = "returned" /\ results # <<>>)
    => \A i \in DOMAIN results :
          FEq(results[i].score, result.score)
          => ClaimedRank(result.type) <= ClaimedRank(results[i].type)

\* C3 amended: among pool members of different types whose scores equal the
\* greatest score, the one returned is first in the order text, image, video.
C3_TieBreak ==
    (pc = "returned" /\ results # <<>>)
    => \A i \in DOMAIN results :
          FEq(results[i].score, result.score)
          => SourceRank(result.type) <= SourceRank(results[i].type)

\* C3 witness: a text was returned although a video and an image of the same
\* score were in the pool
C3_Witness ==
    /\ pc = "returned"
    /\ result.type = "text"
    /\ \E i, j \in DOMAIN results :
          /\ results[i].type = "video"
          /\ results[j].type = "image"
          /\ FEq(results[i].score, result.score)
          /\ FEq(results[j].score, result.score)

\* C4: in a general search, a content type whose read raised, at whatever
\* point of the stream, has no candidate in the pool; the types whose reads
\* completed are all there, all three collections were read, and the search
\* returned in its first invocation.
C4_PartialFetch ==
    (pc = "returned" /\ PlainQuery)
    => /\ Range(results) = {c \in GeneralPool : ReadOk(CollOf(c.type))}
       /\ ReadColls = <<"pdf_text", "pdf_images_new", "videos">>
       /\ calls = 1

\* C5: when every repository read of the general search raises, the search
\* is invoked three times, with sleeps of 2, 4 and 8 seconds, and the
\* request ends in 503.
C5_RetryOnError ==
    (/\ pc = "done"
     /\ PlainQuery
     /\ reads # <<>>
     /\ \A i \in DOMAIN reads : ~reads[i].ok)
    => /\ calls = max_retries
       /\ slept = <<2, 4, 8>>
       /\ response.status = 503

\* the read of videos made by the latest invocation of the search
LastVideosRead ==
    reads[CHOOSE i \in DOMAIN reads :
             /\ reads[i].coll = "videos"
             /\ \A j \in DOMAIN reads : j > i => reads[j].coll # "videos"]

\* C6: for a video request whose video lookup yields nothing (no video
\* scores above its threshold, or the read raised) and whose reads of text
\* and images complete, the search reads pdf_text and pdf_images_new after
\* the video lookup, reads videos no further time, and returns the
\* greatest-scored eligible text or image candidate, or None when there is
\* none.
C6_Fallback ==
    (/\ pc = "returned"
     /\ VideoQuery
     /\ (Eligible(VideoCandidates) = {} \/ ~LastVideosRead.ok)
     /\ ReadOk("pdf_text") /\ ReadOk("pdf_images_new"))
    => /\ SubSeq(ReadColls, Len(reads) - 2, Len(reads))
            = <<"videos", "pdf_text", "pdf_images_new">>
       /\ Range(results) = FallbackPool
       /\ IsSelection(result, FallbackPool)

\* C6 witness: a video request fell back to a text that outscored an eligible
\* image while the videos collection was not empty
C6_Witness ==
    /\ pc = "returned" /\ VideoQuery
    /\ videos # <<>>
    /\ ReadOk("pdf_text") /\ ReadOk("pdf_images_new")
    /\ result.type = "text"
    /\ \E p \in FallbackPool :
          p.type = "image" /\ FGt(result.score, p.score)

\* C7: the threshold comparisons are strict.  Every member of the pool scores
\* above the threshold of its type; a candidate that scores exactly its
\* threshold is not in the pool and is not returned; and when the reads of a
\* general search complete, every candidate that scores above its threshold
\* is in the pool.
C7_ThresholdBoundary ==
    pc = "returned"
    => /\ \A i \in DOMAIN results :
             FGt(results[i].score, ThresholdOf(results[i].type))
       /\ \A c \in TextCandidates \cup ImageCandidates \cup VideoCandidates :
             FEq(c.score, ThresholdOf(c.type))
             => c \notin Range(results) /\ result # c
       /\ (PlainQuery /\ AllReadsOk)
          => \A c \in TextCandidates \cup ImageCandidates
                        \cup VideoCandidates :
                FGt(c.score, ThresholdOf(c.type)) => c \in Range(results)

\* C7 witness: a text at exactly 0.05 and a video at exactly 0.001 were left
\* out while an image just above 0.01 was returned
C7_Witness ==
    /\ pc = "returned" /\ PlainQuery /\ AllReadsOk
    /\ \E c \in TextCandidates : FEq(c.score, TEXT_THRESHOLD)
    /\ \E c \in VideoCandidates : FEq(c.score, VIDEO_THRESHOLD)
    /\ result.type = "image"
    /\ FGt(result.score, IMAGE_THRESHOLD)
    /\ FGt(TEXT_THRESHOLD, result.score)

\* C8: a request whose query is empty after trimming never reads a
\* collection, never invokes the search, and ends in a 400 response.
C8_InvalidQuery ==
    (ExtractedStr /\ IsBlank(request.query.str))
    => /\ reads = <<>>
       /\ calls = 0
       /\ pc \in {"start", "done"}
       /\ pc = "done" => /\ response.status = 400
                         /\ response.type = "error"

\* C8 witness: a JSON request carrying only a form feed was answered 400
C8_Witness ==
    /\ pc = "done"
    /\ request.is_json
    /\ request.query = Str(<<"\f">>)
    /\ response = error_response("Invalid query", 400)
    /\ pdf_text # <<>>

\* the searchable texts of the documents the collections hold
AllSearchTexts ==
    {pdf_text[i].content.str : i \in DOMAIN pdf_text}
    \cup {image_description(pdf_images_new[i]).str :
              i \in DOMAIN pdf_images_new}
    \cup {searchable_text(videos[i]) : i \in DOMAIN videos}

QueryWords == Range(findall(lower(query)))

NoScoreAboveThreshold ==
    \A c \in StoredCandidates : ~FGt(c.score, ThresholdOf(c.type))

\* C9 as stated: when no word of a valid query is a word of any candidate's
\* searchable text, no candidate scores above its threshold and the request
\* ends in 404.
C9_NoWordOverlap ==
    (/\ pc = "done"
     /\ ValidRequest
     /\ \A t \in AllSearchTexts :
           QueryWords \cap Range(findall(lower(t))) = {})
    => /\ NoScoreAboveThreshold
       /\ response.status = 404

\* C9 amended: when no word of a valid query occurs as a substring of any
\* candidate's lower-cased searchable text, no candidate scores above its
\* threshold and the request ends in 404.
C9_EmptyPool ==
    (/\ pc = "done"
     /\ ValidRequest
     /\ \A t \in AllSearchTexts :
           \A w \in QueryWords : ~contains(lower(t), w))
    => /\ NoScoreAboveThreshold
       /\ response.status = 404

\* C9 witness: a video request came back 404 from a repository holding
\* texts and videos that share no word with it
C9_Witness ==
    /\ pc = "done"
    /\ ValidRequest
    /\ \A t \in AllSearchTexts :
          \A w \in QueryWords : ~contains(lower(t), w)
    /\ pdf_text # <<>>
    /\ videos # <<>>
    /\ response.status = 404

\* C10 as stated: if the lower-cased query is a substring of the lower-cased
\* text, the score is at least 1, the empty query and the queries of white
\* space or punctuation included.
C10_SubstringAnyQuery ==
    (/\ scored.called
     /\ scored.query.is_str /\ scored.text.is_str
     /\ contains(lower(scored.text.str), lower(scored.query.str)))
    => FGe(scored.score, F_ONE)

\* C10 amended: if the query holds at least one word character (a letter, a
\* digit or the underscore) and the lower-cased query is a substring of the
\* lower-cased text, the score is at least 1.
C10_ExactSubstring ==
    (/\ scored.called
     /\ scored.query.is_str /\ scored.text.is_str
     /\ HasWordChar(scored.query.str)
     /\ contains(lower(scored.text.str), lower(scored.query.str)))
    => FGe(scored.score, F_ONE)

\* C10 witness: an upper-case query matched inside a lower-case text of two
\* words
C10_Witness ==
    /\ scored.called
    /\ scored.query = Str(<<"A">>)
    /\ scored.text = Str(<<"b", " ", "a">>)
    /\ FGe(scored.score, F_ONE)

\* the four outcomes of a request
IsErrorOutcome(r) ==
    /\ r.type = "error"
    /\ ~r.has_image /\ ~r.has_video
    /\ \/ r.status = 400 /\ r.message \in {"Invalid content type",
                                            "Invalid query"}
       \/ r.status = 404 /\ r.message = "No results found"
       \/ r.status = 503 /\ r.message = "Service unavailable"

IsSuccessOutcome(r) ==
    /\ r.status = 200
    /\ r.type \in {"text", "image", "video"}
    /\ r.has_video <=> (r.type = "video")
    /\ r.has_image <=> (r.type = "image")
    /\ ~(r.has_image /\ r.has_video)

\* the handler has a step to take: a read needs no more than an outcome,
\* and once the attempts are used up the loop is left
CanStep ==
    /\ pc = "start" => ENABLED webhook_validate
    /\ pc = "returned" => ENABLED webhook_respond
    /\ pc \in {"intent", "videos"} => FailPoints(videos) # {}
    /\ pc = "text" => FailPoints(pdf_text) # {}
    /\ pc = "images" => FailPoints(pdf_images_new) # {}
    /\ pc = "search"
       => \/ retries < max_retries /\ FailPoints(videos) # {}
          \/ ENABLED wrapper_exhausted

OutcomeMapping ==
    /\ pc # "done" => response = NoResponse /\ CanStep
    /\ pc = "done"
       => /\ IsErrorOutcome(response) \/ IsSuccessOutcome(response)
          /\ response.status = 400
             <=> (~request.is_json
                  \/ (ExtractedStr /\ IsBlank(request.query.str)))
          /\ response.status = 404 => result = None
          /\ response.status = 200
             => response.type = (IF calls = 0
                                 THEN "video" ELSE result.type)

\* steps the handler has left at most: every step of it lowers the number
StepsLeft ==
    CASE pc = "start" -> 19
      [] pc = "intent" -> 18
      [] pc = "search" -> 17 - 5 * retries
      [] pc = "text" -> 16 - 5 * retries
      [] pc = "images" -> 15 - 5 * retries
      [] pc = "videos" -> 14 - 5 * retries
      [] pc = "returned" -> 1
      [] pc = "done" -> 0

\* C11: every request ends, and ends in one outcome: while the handler runs
\* there is no response and a step to take, every step of the handler
\* brings the end nearer, and at the end the response is an error payload of
\* status 400 (exactly the requests that are not JSON or whose query is
\* blank), 404 or 503 with has_image and has_video both false, or a success
\* payload whose has_video is true exactly for a video, whose has_image is
\* true exactly for an image, never both.
C11_UniformOutcome ==
    /\ []OutcomeMapping
    /\ [][locals' # locals
             => /\ StepsLeft' < StepsLeft
                /\ StepsLeft' >= 0
                /\ pc # "done"]_vars

\* C11 witness: a request ended in a success payload for an image, has_image
\* set and has_video clear
C11_Witness ==
    /\ pc = "done"
    /\ result.type = "image"
    /\ response.status = 200
    /\ response.has_image /\ ~response.has_video

VideoKeywords ==
    {<<"v","i","d","e","o">>, <<"w","a","t","c","h">>, <<"p","l","a","y">>,
     <<"s","h","o","w"," ","v","i","d","e","o">>}

\* keyword k stands in s at offset i
KeywordAt(s, k, i) ==
    /\ i + Len(k) <= Len(s)
    /\ \A j \in 1..Len(k) : s[i + j] = k[j]

ContainsKeyword(s) ==
    \E k \in VideoKeywords : \E i \in 0..Len(s) : KeywordAt(s, k, i)

\* C12: a query is handled as a video request, by the webhook and by the
\* search alike, exactly when its lower-cased form contains video, watch,
\* play or show video as a substring.  The webhook's verdict shows in its
\* forced read of videos before any search, the search's verdict in the
\* collection its first invocation reads first.
C12_IntentClassification ==
    (ValidRequest /\ pc \notin {"start", "intent"})
    => IF ContainsKeyword(lower(request.query.str))
       THEN /\ reads # <<>> /\ reads[1].coll = "videos"
            /\ calls = 0 => Len(reads) = 1
            /\ calls >= 1 => Len(reads) >= 2 /\ reads[2].coll = "videos"
       ELSE /\ calls = 0 => reads = <<>>
            /\ ReadColls = SubSeq(<<"pdf_text", "pdf_images_new", "videos">>,
                                  1, Len(reads))
            /\ pc \in {"returned", "done"} => Len(reads) = 3

\* C12 witness: display, which holds play inside a longer word, was taken
\* for a video request by the webhook and then by the search
C12_Witness ==
    /\ request.query = Str(<<"d","i","s","p","l","a","y">>)
    /\ calls = 1
    /\ ReadColls = <<"videos", "videos", "pdf_text", "pdf_images_new">>

\* invocations and sleeps so far agree with the wrapper's position
Invoked == pc \in {"text", "images", "videos", "returned"}

RetryCounts ==
    /\ calls \in 0..3
    /\ retries \in 0..3
    /\ slept = SubSeq(<<2, 4, 8>>, 1, retries)
    /\ pc = "search" => calls = retries
    /\ Invoked => calls = retries + 1
    /\ (pc = "done" /\ calls >= 1)
       => IF retries = 3
          THEN calls = 3 /\ result = None /\ response.status = 503
          ELSE calls = retries + 1 /\ response.status \in {200, 404}

\* a step of the wrapper: an invocation starts from the loop only, one at a
\* time; an invocation that raises is followed by one sleep and leaves the
\* value alone; an invocation that returns ends the call with no sleep, and
\* what it returned is what the handler answers from; and the only step out
\* of the loop that is no invocation is the raise after the third failure
RetryStep ==
    /\ calls' # calls => calls' = calls + 1 /\ pc = "search"
    /\ retries' # retries
       => /\ retries' = retries + 1
          /\ calls' = calls + 1
          /\ pc' = "search"
          /\ slept' = Append(slept, 2 ^ retries')
          /\ result' = result
    /\ retries' = retries => slept' = slept
    /\ (Invoked /\ locals' # locals)
       => /\ Invoked' \/ pc' = "done"
          /\ pc # "returned" => result' = result \/ pc' = "returned"
          /\ pc = "returned"
             => /\ result' = result
                /\ response' = IF result = None
                                THEN error_response("No results found", 404)
                                ELSE success_response(result)
    /\ (pc = "search" /\ calls' = calls /\ locals' # locals)
       => /\ calls = 3
          /\ result' = result
          /\ pc' = "done"
          /\ response'.status = 503

\* C13: the wrapped search is invoked at most 3 times per call; the first
\* invocation that returns ends the call with its value, with no further
\* invocation and no sleep; the k-th failed invocation is followed by a
\* sleep of 2, 4, 8 seconds for k = 1, 2, 3; and after 3 failures the call
\* ends by raising to the caller (answered 503), never by returning.
C13_RetryProtocol ==
    /\ []RetryCounts
    /\ [][RetryStep]_vars

\* C13 witness: three invocations failed, the wrapper slept 2, 4 and 8
\* seconds and the request ended in 503
C13_Witness ==
    /\ pc = "done"
    /\ calls = 3
    /\ slept = <<2, 4, 8>>
    /\ result = None
    /\ response = error_response("Service unavailable", 503)

\* the video lookup of the webhook came back with at least one result
ForcedLookupHit ==
    /\ VideoQuery
    /\ pc \notin {"start", "intent"}
    /\ reads[1].ok
    /\ Eligible(VideoCandidates) # {}

\* a lookup of videos by index i of reads came back empty
LookupEmpty(i) ==
    /\ reads[i].coll = "videos"
    /\ ~reads[i].ok \/ Eligible(VideoCandidates) = {}

\* for a video request, pdf_text and pdf_images_new are read only behind a
\* video lookup that came back empty
ReadsBehindEmptyLookup ==
    VideoQuery
    => \A i \in DOMAIN reads :
          reads[i].coll \in {"pdf_text", "pdf_images_new"}
          => \E j \in 1..(i - 1) :
                /\ LookupEmpty(j)
                /\ \A k \in (j + 1)..(i - 1) : reads[k].coll # "videos"

\* C14: when the video lookup of the webhook yields a result for a video
\* request, the request ends in the success payload of a video of greatest
\* score among those results, the search is never invoked and videos is the
\* only collection read; pdf_text and pdf_images_new are read only after a
\* video lookup that came back empty.
C14_ForcedVideoBypass ==
    /\ ForcedLookupHit
       => /\ pc = "done"
          /\ calls = 0
          /\ ReadColls = <<"videos">>
          /\ \E v \in Eligible(VideoCandidates) :
                /\ \A u \in Eligible(VideoCandidates) :
                      FGe(v.score, u.score)
                /\ response = success_response(v)
    /\ ReadsBehindEmptyLookup

=============================================================================
